---- MODULE Spec2Model ----
(***************************************************************************)
(* Model of python/binary-tree.py: the Node class with its itemCheck       *)
(* method, the recursive constructor bottomUpTree, and the driver main.    *)
(*                                                                         *)
(* Nodes are never modified after construction and each is referenced by   *)
(* its parent alone, so a Node is modelled by its value: a record of its   *)
(* item and of its left and right subtrees, each a Node or None.  Python   *)
(* integers are unbounded, and so are the model's.                         *)
(***************************************************************************)
EXTENDS Integers, Sequences, FiniteSets

\* ------------------------------------------------------------------ bounds
\* main is run with n in -NegN .. MaxN
NegN == 2
MaxN == 8
\* bottomUpTree is called directly with item in -MaxItem .. MaxItem
\* and depth in -NegDepth .. MaxTreeDepth
MaxItem == 5
NegDepth == 2
MaxTreeDepth == 5

\* --------------------------------------------------------- program constant
\* def main(n, minDepth=4); the script calls main(int(sys.argv[1]))
minDepth == 4

VARIABLES
    \* --- main's locals
    pc,             \* position in main
    n,              \* main's argument
    maxDepth,
    stretchDepth,
    check,
    longLivedTree,
    depth,
    iterations,
    i,
    tmp,            \* the temporary tree bottomUpTree(...) returned, until its
                    \* itemCheck() has returned; None otherwise
    \* --- main's observable effects
    output,         \* the lines printed so far
    built,          \* the temporary trees checked since `check` was last
                    \* reset: the item at the root, the itemCheck result
    \* --- a direct call of bottomUpTree(item, depth) and of itemCheck on its result
    tpc,            \* position in the direct call
    call,           \* [item, depth]: the arguments
    tree,           \* bottomUpTree(item, depth)
    result,         \* tree.itemCheck()
    mirror          \* bottomUpTree(-item, depth).itemCheck()

mainVars == <<pc, n, maxDepth, stretchDepth, check, longLivedTree, depth,
              iterations, i, tmp, output, built>>
callVars == <<tpc, call, tree, result, mirror>>
vars == <<pc, n, maxDepth, stretchDepth, check, longLivedTree, depth,
          iterations, i, tmp, output, built, tpc, call, tree, result, mirror>>

\* ------------------------------------------------------------- class Node
\* Python's None: a value that is no Node
None == [none |-> TRUE]

\* Node.__init__(self, item, left, right)
Node(item, left, right) == [item |-> item, left |-> left, right |-> right]

\* itemCheck with the signs of the two subtrees exchanged
RECURSIVE itemCheckNegated(_)
itemCheckNegated(self) ==
    IF self.left = None
    THEN self.item
    ELSE self.item - itemCheckNegated(self.left) + itemCheckNegated(self.right)

\* itemCheck adding the right subtree instead of subtracting it
RECURSIVE itemCheckAdded(_)
itemCheckAdded(self) ==
    IF self.left = None
    THEN self.item
    ELSE self.item + itemCheckAdded(self.left) + itemCheckAdded(self.right)

\* Node.itemCheck(self).  Reading a field of None is an error, as
\* self.right.itemCheck() on None is in Python.
RECURSIVE itemCheck(_)
itemCheck(self) ==
    IF self.left = None
    THEN self.item
    ELSE self.item + itemCheck(self.left) - itemCheck(self.right)

\* bottomUpTree(item, depth) stopping one level early (depth <= 1)
RECURSIVE bottomUpTreeShallow(_, _)
bottomUpTreeShallow(item, dep) ==
    IF dep <= 1
    THEN Node(item, None, None)
    ELSE Node(item, bottomUpTreeShallow(2*item - 1, dep - 1),
                    bottomUpTreeShallow(2*item, dep - 1))

\* bottomUpTree(item, depth) stopping one level late (depth < 0)
RECURSIVE bottomUpTreeDeep(_, _)
bottomUpTreeDeep(item, dep) ==
    IF dep < 0
    THEN Node(item, None, None)
    ELSE Node(item, bottomUpTreeDeep(2*item - 1, dep - 1),
                    bottomUpTreeDeep(2*item, dep - 1))

\* bottomUpTree(item, depth) with the two children exchanged
RECURSIVE bottomUpTreeSwapped(_, _)
bottomUpTreeSwapped(item, dep) ==
    IF dep <= 0
    THEN Node(item, None, None)
    ELSE Node(item, bottomUpTreeSwapped(2*item, dep - 1),
                    bottomUpTreeSwapped(2*item - 1, dep - 1))

\* bottomUpTree(item, depth)
RECURSIVE bottomUpTree(_, _)
bottomUpTree(item, dep) ==
    IF dep <= 0
    THEN Node(item, None, None)
    ELSE Node(item, bottomUpTree(2*item - 1, dep - 1),
                    bottomUpTree(2*item, dep - 1))

\* ------------------------------------------------- observers of a tree
\* Number of nodes reachable from self through left and right.
RECURSIVE Nodes(_)
Nodes(self) ==
    IF self = None THEN 0
    ELSE 1 + Nodes(self.left) + Nodes(self.right)

\* Number of edges on the longest path from self down to a leaf
\* (-1 for None).
RECURSIVE Height(_)
Height(self) ==
    IF self = None THEN -1
    ELSE LET hl == Height(self.left)
             hr == Height(self.right)
         IN  1 + (IF hl >= hr THEN hl ELSE hr)

\* ------------------------------------------------------------- direct calls
Items == (-MaxItem) .. MaxItem
Depths == (-NegDepth) .. MaxTreeDepth

MainIdle ==
    /\ pc = "idle" /\ n = 0 /\ maxDepth = 0 /\ stretchDepth = 0 /\ check = 0
    /\ longLivedTree = None /\ depth = 0 /\ iterations = 0 /\ i = 0
    /\ tmp = None /\ output = <<>> /\ built = <<>>

CallIdle ==
    /\ tpc = "idle" /\ call = [item |-> 0, depth |-> 0] /\ tree = None
    /\ result = 0 /\ mirror = 0

TreeInit ==
    /\ MainIdle
    /\ tpc = "call"
    /\ call \in [item : Items, depth : Depths]
    /\ tree = None /\ result = 0 /\ mirror = 0

\* t = bottomUpTree(item, depth)
Build ==
    /\ tpc = "call"
    /\ tree' = bottomUpTree(call.item, call.depth)
    /\ tpc' = "built"
    /\ UNCHANGED <<call, result, mirror>>
    /\ UNCHANGED mainVars

\* t.itemCheck()
Check ==
    /\ tpc = "built"
    /\ result' = itemCheck(tree)
    /\ tpc' = "checked"
    /\ UNCHANGED <<call, tree, mirror>>
    /\ UNCHANGED mainVars

\* bottomUpTree(-item, depth).itemCheck(), as main pairs it with the call on item
Mirror ==
    /\ tpc = "checked"
    /\ mirror' = LET t == bottomUpTree(-call.item, call.depth)
                 IN  itemCheck(t)
    /\ tpc' = "mirrored"
    /\ UNCHANGED <<call, tree, result>>
    /\ UNCHANGED mainVars

TreeNext == Build \/ Check \/ Mirror

TreeSpec == TreeInit /\ [][TreeNext]_vars

\* ------------------------------------------------------------------- main
\* maxDepth = n; if minDepth+2 > n: maxDepth = minDepth + 2
\* (without the clamp: maxDepth = n)
MaxDepthOfN(nn) == nn
MaxDepth(nn) == IF minDepth + 2 > nn THEN minDepth + 2 ELSE nn

\* stretchDepth = maxDepth + 1
\* (without the increment: stretchDepth = maxDepth)
StretchDepthSame(md) == md
StretchDepth(md) == md + 1

\* iterations = 1 << (maxDepth-depth+minDepth)
Iterations(md, d) == 2 ^ (md - d + minDepth)

\* range(start, stop): the integers from start up to, not including, stop
range(start, stop) == start .. (stop - 1)

\* depth += 2
\* (stepping by one: depth += 1)
NextDepthByOne(d) == d + 1
NextDepth(d) == d + 2

\* "stretch tree of depth %d\t check: %d" % (stretchDepth, check)
StretchLine(d, c) == [label |-> "stretch tree", depth |-> d, check |-> c]
\* "%d\t trees of depth %d\t check: %d" % (iterations*2, depth, check)
LoopLine(t, d, c) == [label |-> "trees", trees |-> t, depth |-> d, check |-> c]
\* "long lived tree of depth %d\t check: %d" % (maxDepth, longLivedTree.itemCheck())
LongLivedLine(d, c) == [label |-> "long lived tree", depth |-> d, check |-> c]

Ns == (-NegN) .. MaxN

Init ==
    /\ CallIdle
    /\ pc = "start"
    /\ n \in Ns
    /\ maxDepth = 0 /\ stretchDepth = 0 /\ check = 0
    /\ longLivedTree = None /\ depth = 0 /\ iterations = 0 /\ i = 0
    /\ tmp = None /\ output = <<>> /\ built = <<>>

\* lines 49-52
ComputeDepths ==
    /\ pc = "start"
    /\ maxDepth' = MaxDepth(n)
    /\ stretchDepth' = StretchDepth(maxDepth')
    /\ pc' = "stretch"
    /\ UNCHANGED <<n, check, longLivedTree, depth, iterations, i, tmp, output, built>>
    /\ UNCHANGED callVars

\* bottomUpTree(item, dep) evaluated at position `at`: the tree is a
\* temporary, about to receive itemCheck()
BuildTemporary(at, item, dep, to) ==
    /\ pc = at
    /\ tmp' = bottomUpTree(item, dep)
    /\ pc' = to
    /\ UNCHANGED <<n, maxDepth, stretchDepth, check, longLivedTree, depth,
                   iterations, i, output, built>>
    /\ UNCHANGED callVars

\* line 54, bottomUpTree(0, stretchDepth)
BuildStretch == BuildTemporary("stretch", 0, stretchDepth, "stretchCheck")

\* line 54, check = <temporary>.itemCheck(), and line 55; the temporary is
\* dropped
PrintStretch ==
    /\ pc = "stretchCheck"
    /\ check' = itemCheck(tmp)
    /\ built' = Append(built, [item |-> tmp.item, check |-> check'])
    /\ output' = Append(output, StretchLine(stretchDepth, check'))
    /\ tmp' = None
    /\ pc' = "longlived"
    /\ UNCHANGED <<n, maxDepth, stretchDepth, longLivedTree, depth, iterations, i>>
    /\ UNCHANGED callVars

\* lines 57-59
BuildLongLived ==
    /\ pc = "longlived"
    /\ longLivedTree' = bottomUpTree(0, maxDepth)
    /\ depth' = minDepth
    /\ pc' = "while"
    /\ UNCHANGED <<n, maxDepth, stretchDepth, check, iterations, i, tmp, output, built>>
    /\ UNCHANGED callVars

\* lines 60-62 and the start of the for loop of line 64; i is the next
\* value the range iterator yields
WhileEnter ==
    /\ pc = "while"
    /\ depth <= maxDepth
    /\ iterations' = Iterations(maxDepth, depth)
    /\ check' = 0
    /\ built' = <<>>
    /\ i' = 1
    /\ pc' = "for"
    /\ UNCHANGED <<n, maxDepth, stretchDepth, longLivedTree, depth, tmp, output>>
    /\ UNCHANGED callVars

\* line 64 yielding i, and line 65, bottomUpTree(i, depth)
BuildPos ==
    /\ i \in range(1, iterations)
    /\ BuildTemporary("for", i, depth, "checkPos")

\* line 65, check += <temporary>.itemCheck(); the temporary is dropped
CheckPos ==
    /\ pc = "checkPos"
    /\ check' = check + itemCheck(tmp)
    /\ built' = Append(built, [item |-> tmp.item, check |-> itemCheck(tmp)])
    /\ tmp' = None
    /\ pc' = "buildNeg"
    /\ UNCHANGED <<n, maxDepth, stretchDepth, longLivedTree, depth, iterations,
                   i, output>>
    /\ UNCHANGED callVars

\* line 66, bottomUpTree(-i, depth)
BuildNeg == BuildTemporary("buildNeg", -i, depth, "checkNeg")

\* line 66, check += <temporary>.itemCheck(); the temporary is dropped and
\* the iterator moves on
CheckNeg ==
    /\ pc = "checkNeg"
    /\ check' = check + itemCheck(tmp)
    /\ built' = Append(built, [item |-> tmp.item, check |-> itemCheck(tmp)])
    /\ tmp' = None
    /\ i' = i + 1
    /\ pc' = "for"
    /\ UNCHANGED <<n, maxDepth, stretchDepth, longLivedTree, depth, iterations, output>>
    /\ UNCHANGED callVars

\* line 64 with the range exhausted, then lines 67-68
PrintLoop ==
    /\ pc = "for"
    /\ i \notin range(1, iterations)
    /\ output' = Append(output, LoopLine(iterations * 2, depth, check))
    /\ depth' = NextDepth(depth)
    /\ pc' = "while"
    /\ UNCHANGED <<n, maxDepth, stretchDepth, check, longLivedTree, iterations, i,
                   tmp, built>>
    /\ UNCHANGED callVars

\* line 60 with the condition false, then line 70
PrintLongLived ==
    /\ pc = "while"
    /\ ~(depth <= maxDepth)
    /\ output' = Append(output, LongLivedLine(maxDepth, itemCheck(longLivedTree)))
    /\ pc' = "done"
    /\ UNCHANGED <<n, maxDepth, stretchDepth, check, longLivedTree, depth,
                   iterations, i, tmp, built>>
    /\ UNCHANGED callVars

Next ==
    \/ ComputeDepths
    \/ BuildStretch
    \/ PrintStretch
    \/ BuildLongLived
    \/ WhileEnter
    \/ BuildPos
    \/ CheckPos
    \/ BuildNeg
    \/ CheckNeg
    \/ PrintLoop
    \/ PrintLongLived

\* main(n) run as the script runs it
Spec == Init /\ [][Next]_vars

\* main is sequential code: a step that can be taken is taken
FairSpec == Spec /\ WF_vars(Next)

\* either the script is run, or the module's functions are called directly
AllNext == Next \/ TreeNext
AllSpec == (Init \/ TreeInit) /\ [][AllNext]_vars

\* ================================================================= claims
Last(s) == s[Len(s)]
MaxOf(a, b) == IF a >= b THEN a ELSE b
Called == tpc \in {"built", "checked", "mirrored"}
Checked == tpc \in {"checked", "mirrored"}

\* main's positions from the while test of line 60 to line 68
InLoop == {"while", "for", "checkPos", "buildNeg", "checkNeg"}

\* sum of the checksums of built[lo], ..., built[hi]
RECURSIVE SumChecks(_, _)
SumChecks(lo, hi) ==
    IF lo > hi THEN 0
    ELSE IF lo = hi THEN built[lo].check
    ELSE LET mid == (lo + hi) \div 2
         IN  SumChecks(lo, mid) + SumChecks(mid + 1, hi)

\* a loop line has just been printed: it is the last line, and built and
\* iterations are still those of its loop
LoopLinePrinted == pc = "while" /\ Len(output) >= 2

\* C1: when a loop line has been printed for depth d, exactly 2*iterations
\* trees of depth d were built for it, with seeds +i and -i for every i
\* from 1 to iterations inclusive, the check reported is the sum of their
\* checksums, and the tree count printed is the number of trees built.
C1_TreesBuiltAsReported ==
    /\ pc \in {"checkPos", "checkNeg"} => Height(tmp) = depth
    /\ LoopLinePrinted =>
           LET line == Last(output)
           IN  /\ iterations = 2 ^ (maxDepth - line.depth + minDepth)
               /\ Len(built) = 2 * iterations
               /\ \A k \in 1 .. iterations :
                      built[2*k - 1].item = k /\ built[2*k].item = -k
               /\ line.check = SumChecks(1, Len(built))
               /\ line.trees = Len(built)

\* C2 as stated: for every even depth d >= 0 the checksums of
\* bottomUpTree(i, d) and bottomUpTree(-i, d) add up to 0.
C2_MirrorSumZero ==
    (tpc = "mirrored" /\ call.depth >= 0 /\ call.depth % 2 = 0)
        => result + mirror = 0

\* C2 (amended): for every even depth d >= 0 the checksums of
\* bottomUpTree(i, d) and bottomUpTree(-i, d) add up to 0 when d = 0 and
\* to -2 when d >= 2.
C2_MirrorSum ==
    (tpc = "mirrored" /\ call.depth >= 0 /\ call.depth % 2 = 0)
        => result + mirror = (IF call.depth = 0 THEN 0 ELSE -2)

C2_Witness ==
    /\ tpc = "mirrored" /\ call.depth = 2 /\ call.item = 3
    /\ result = 2 /\ mirror = -4

\* C3 as stated: for depth d >= 0 the tree has exactly 2^(d+1-1) nodes.
C3_NodeCountAsStated ==
    (Called /\ call.depth >= 0) => Nodes(tree) = 2 ^ (call.depth + 1 - 1)

\* C3 (amended): for every item and every depth d >= 0 the tree returned by
\* bottomUpTree(item, d) has exactly 2^(d+1) - 1 nodes.
C3_NodeCount ==
    (Called /\ call.depth >= 0) => Nodes(tree) = 2 ^ (call.depth + 1) - 1

C3_Witness == tpc = "built" /\ call.depth = 3 /\ Nodes(tree) = 15

\* the labels and depths of the lines printed, in order
LabelsAndDepths == [k \in 1 .. Len(output) |-> <<output[k].label, output[k].depth>>]

\* C4 as stated: main(4) prints a stretch line for depth 6, loop lines for
\* depths 4 and 6 and no others, then the long lived line for depth 6.
C4_LinesAsStated ==
    (pc = "done" /\ n = 4) =>
        LabelsAndDepths = << <<"stretch tree", 6>>, <<"trees", 4>>, <<"trees", 6>>,
                             <<"long lived tree", 6>> >>

\* C4 (amended): main(4) prints a stretch line for depth 7, loop lines for
\* depths 4 and 6 and no others, then the long lived line for depth 6.
C4_Lines ==
    (pc = "done" /\ n = 4) =>
        LabelsAndDepths = << <<"stretch tree", 7>>, <<"trees", 4>>, <<"trees", 6>>,
                             <<"long lived tree", 6>> >>

C4_Witness == pc = "done" /\ n = 4 /\ Len(output) = 4 /\ output[1].depth = 7

\* C5: for every n, maxDepth = max(n, minDepth+2) >= minDepth+2 and
\* stretchDepth = maxDepth+1; the stretch tree has depth maxDepth+1, the long
\* lived tree depth maxDepth, and the loop body runs at least twice.
C5_Depths ==
    /\ pc \notin {"idle", "start"} =>
           /\ maxDepth = MaxOf(n, minDepth + 2)
           /\ maxDepth >= minDepth + 2
           /\ stretchDepth = maxDepth + 1
    /\ pc = "stretchCheck" =>
           tmp.item = 0 /\ Height(tmp) = maxDepth + 1
    /\ pc = "longlived" =>
           /\ built = << [item |-> 0, check |-> check] >>
           /\ output = << StretchLine(maxDepth + 1, check) >>
    /\ pc \in InLoop \cup {"done"} =>
           /\ longLivedTree.item = 0
           /\ Height(longLivedTree) = maxDepth
    /\ pc = "done" =>
           Cardinality({k \in 1 .. Len(output) : output[k].label = "trees"}) >= 2

C5_Witness ==
    /\ pc = "done" /\ n < 0 /\ maxDepth = minDepth + 2
    /\ Height(longLivedTree) = minDepth + 2 /\ Len(output) = 4

\* a tree all of whose leaves lie d edges below self, every other node
\* having a left child 2*v-1 and a right child 2*v
RECURSIVE PerfectOfDepth(_, _)
PerfectOfDepth(self, d) ==
    IF d = 0
    THEN self.left = None /\ self.right = None
    ELSE /\ self.left # None /\ self.right # None
         /\ self.left.item = 2 * self.item - 1
         /\ self.right.item = 2 * self.item
         /\ PerfectOfDepth(self.left, d - 1)
         /\ PerfectOfDepth(self.right, d - 1)

\* C6: a tree returned by bottomUpTree(item, depth) is perfectly binary:
\* every node has both links absent or both present, every leaf lies
\* max(depth, 0) edges below the root, and a node of value v with children
\* has the left child 2*v-1 and the right child 2*v.
C6_PerfectlyBinary ==
    Called => /\ tree.item = call.item
              /\ PerfectOfDepth(tree, MaxOf(call.depth, 0))

C6_Witness ==
    /\ tpc = "built" /\ call.depth = 2 /\ call.item = -3
    /\ tree.left.item = -7 /\ tree.right.item = -6
    /\ tree.left.right.item = -14 /\ tree.left.right.left = None

\* C7: for depth <= 0, bottomUpTree(item, depth) is a single leaf and its
\* itemCheck is item.
C7_LeafCheck ==
    /\ (Called /\ call.depth <= 0) => tree = Node(call.item, None, None)
    /\ (Checked /\ call.depth <= 0) => result = call.item

C7_Witness ==
    /\ tpc = "checked" /\ call.depth = 0 /\ call.item = 3
    /\ tree.left = None /\ result = 3

\* the lines are in order: the stretch line first, then the loop lines for
\* depths minDepth, minDepth+2, ... no deeper than max(n, minDepth+2), then,
\* once all of those are printed, the long lived line, and nothing after it
OutputOrdered ==
    /\ \A k \in 1 .. Len(output) :
           /\ (output[k].label = "stretch tree") <=> (k = 1)
           /\ output[k].label \in {"stretch tree", "trees", "long lived tree"}
           /\ output[k].label = "trees" =>
                  /\ output[k].depth = minDepth + 2 * (k - 2)
                  /\ output[k].depth <= MaxOf(n, minDepth + 2)
           /\ output[k].label = "long lived tree" =>
                  /\ k = Len(output)
                  /\ pc = "done"
                  /\ output[k - 1].label = "trees"
                  /\ output[k - 1].depth + 2 > MaxOf(n, minDepth + 2)
                  /\ output[k].depth = MaxOf(n, minDepth + 2)
                  /\ output[k].check = itemCheck(bottomUpTree(0, MaxOf(n, minDepth + 2)))
    /\ pc = "done" => Last(output).label = "long lived tree"
    /\ pc \in InLoop \cup {"done"} =>
           longLivedTree = bottomUpTree(0, MaxOf(n, minDepth + 2))
    /\ pc \in {"start", "stretch", "stretchCheck", "longlived"} => Len(output) <= 1

\* a step taken inside the loop leaves the long lived tree as it is
LoopKeepsLongLivedTree ==
    (pc \in InLoop) => (longLivedTree' = longLivedTree)

\* C9: main terminates; it prints one stretch line, then one loop line for
\* each depth minDepth, minDepth+2, ... up to the largest one <= maxDepth, in
\* increasing order, then one long lived line; the long lived tree is built
\* before the loop, the loop leaves it alone, and its reported check is the
\* itemCheck of bottomUpTree(0, maxDepth).
C9_OrderAndTermination ==
    /\ <>(pc = "done")
    /\ []OutputOrdered
    /\ [][LoopKeepsLongLivedTree]_vars

C9_Witness ==
    /\ pc = "done" /\ n = 7
    /\ LabelsAndDepths = << <<"stretch tree", 8>>, <<"trees", 4>>, <<"trees", 6>>,
                            <<"long lived tree", 7>> >>

\* C10: for depth d >= 1, itemCheck(bottomUpTree(item, d)) = item - 1; the
\* stretch line and the long lived line report check -1, and a loop line's
\* check is negative, even, and minus twice the number of seed pairs summed.
C10_CheckIsItemMinusOne ==
    /\ (Checked /\ call.depth >= 1) => result = call.item - 1
    /\ (tpc = "mirrored" /\ call.depth >= 1) => mirror = - call.item - 1
    /\ \A k \in 1 .. Len(output) :
           /\ output[k].label \in {"stretch tree", "long lived tree"} =>
                  output[k].check = -1
           /\ output[k].label = "trees" =>
                  output[k].check < 0 /\ output[k].check % 2 = 0
    /\ pc \in {"for", "checkPos"} => check = -2 * (Len(built) \div 2)
    /\ LoopLinePrinted => Last(output).check = -2 * (Len(built) \div 2)

C10_Witness ==
    /\ tpc = "checked" /\ call.depth = 3 /\ call.item = -4 /\ result = -5

====
